---- MODULE Spec2Model ----
(***************************************************************************)
(* rv_asm_gen: the register pool (riscv/register.py), the instruction      *)
(* renderer (riscv/instruction.py), the instruction catalog                *)
(* (InstructionSet) and the Assembler (riscv/assembler.py).                *)
(*                                                                         *)
(* Python objects live in a heap: a Registers object holds a dict from     *)
(* name to a reference to a Register record, so that two pools holding the *)
(* same reference alias the same record.  A dict is a sequence of          *)
(* [key, ref] entries in insertion order.                                  *)
(***************************************************************************)
EXTENDS Integers, Sequences, FiniteSets, TLC

VARIABLES heap, pools, ret, isa, asm

vars == <<heap, pools, ret, isa, asm>>

None == "None"

\* RegisterType and RegisterSaveType
RegisterType == {"X", "F"}

RegisterSaveType == {"Caller", "Callee", "System"}

\* Register.__init__: abi_name falls back to name when it is not given
Register(name, abi_name, type, saved_by, is_reserved, is_in_use) ==
    [name        |-> name,
     abi_name    |-> IF abi_name = None THEN name ELSE abi_name,
     type        |-> type,
     saved_by    |-> saved_by,
     is_reserved |-> is_reserved,
     is_in_use   |-> is_in_use]

\* number of registers of the default pool that are modelled
NumRegs == 2

\* Registers of the dict Registers.__init__ builds when none is passed, in
\* the order it inserts them; rank orders them for inclusion in the model:
\* x1/ra (integer, constructed reserved), f8/fs0 (float, callee-saved),
\* x8/s0 (integer, callee-saved), x2/sp (constructed reserved, system),
\* f0/ft0 (float, caller-saved).
RegisterCatalog ==
    << [rank |-> 1, reg |-> Register("x1", "ra",  "X", "Caller", TRUE,  FALSE)],
       [rank |-> 4, reg |-> Register("x2", "sp",  "X", "System", TRUE,  FALSE)],
       [rank |-> 3, reg |-> Register("x8", "s0",  "X", "Callee", FALSE, FALSE)],
       [rank |-> 5, reg |-> Register("f0", "ft0", "F", "Caller", FALSE, FALSE)],
       [rank |-> 2, reg |-> Register("f8", "fs0", "F", "Callee", FALSE, FALSE)] >>

Included == SelectSeq(RegisterCatalog, LAMBDA e : e.rank <= NumRegs)

DefaultRegisters == [i \in 1..Len(Included) |-> Included[i].reg]

\* ---------------------------------------------------------------------------
\* dict helpers
\* ---------------------------------------------------------------------------

\* list(d.values())
Values(dict) == [i \in 1..Len(dict) |-> dict[i].ref]

Keys(dict) == {dict[i].key : i \in 1..Len(dict)}

\* the addresses of the records a dict refers to
Refs(dict) == {dict[i].ref : i \in 1..Len(dict)}

HasKey(dict, k) == \E i \in 1..Len(dict) : dict[i].key = k

\* d[k] = v : overwrite in place when the key exists, append otherwise
DictPut(dict, k, v) ==
    IF HasKey(dict, k)
    THEN [i \in 1..Len(dict) |->
            IF dict[i].key = k THEN [key |-> k, ref |-> v] ELSE dict[i]]
    ELSE Append(dict, [key |-> k, ref |-> v])

\* A Python value that is a reference to the Register record at address a
Ref(a) == [tag |-> "Register", ref |-> a]

\* The Python value None, as a returned object
NoneVal == [tag |-> "None"]

\* d.get(k, None)
DictGet(dict, k) ==
    IF HasKey(dict, k)
    THEN Ref((CHOOSE e \in {dict[i] : i \in 1..Len(dict)} : e.key = k).ref)
    ELSE NoneVal

\* {reg.name: reg for reg in subset}
RECURSIVE DictOfRegs(_, _)
DictOfRegs(h, subset) ==
    IF subset = <<>> THEN <<>>
    ELSE LET n == Len(subset)
         IN  DictPut(DictOfRegs(h, SubSeq(subset, 1, n - 1)),
                     h[subset[n]].name, subset[n])

\* reg.is_reserved == is_reserved, for a predicate that is True or False
B(flag) == IF flag THEN "True" ELSE "False"

ValueError(msg) == [tag |-> "ValueError", msg |-> msg]

IsError(r) == r.tag = "ValueError"

\* ---------------------------------------------------------------------------
\* Registers
\* ---------------------------------------------------------------------------

\* Registers.filter with the is_in_use predicate left out
Registers_filter_IgnoreInUse(h, dict, type, saved_by, is_reserved, is_in_use) ==
    LET s0 == IF type = None
              THEN Values(dict)
              ELSE SelectSeq(Values(dict), LAMBDA a : h[a].type = type)
        s1 == IF saved_by # None
              THEN SelectSeq(s0, LAMBDA a : h[a].saved_by = saved_by)
              ELSE s0
        s2 == IF is_reserved # None
              THEN SelectSeq(s1, LAMBDA a : B(h[a].is_reserved) = is_reserved)
              ELSE s1
    IN  IF s2 = <<>>
        THEN ValueError("No registers matching the filter were found")
        ELSE [tag |-> "Registers", registers |-> DictOfRegs(h, s2)]

\* Registers.filter applying each predicate to all the registers instead of
\* to the subset the predicates before it have left
Registers_filter_LastWins(h, dict, type, saved_by, is_reserved, is_in_use) ==
    LET all == Values(dict)
        s0 == IF type = None
              THEN all
              ELSE SelectSeq(all, LAMBDA a : h[a].type = type)
        s1 == IF saved_by # None
              THEN SelectSeq(all, LAMBDA a : h[a].saved_by = saved_by)
              ELSE s0
        s2 == IF is_reserved # None
              THEN SelectSeq(all, LAMBDA a : B(h[a].is_reserved) = is_reserved)
              ELSE s1
        s3 == IF is_in_use # None
              THEN SelectSeq(all, LAMBDA a : B(h[a].is_in_use) = is_in_use)
              ELSE s2
    IN  IF s3 = <<>>
        THEN ValueError("No registers matching the filter were found")
        ELSE [tag |-> "Registers", registers |-> DictOfRegs(h, s3)]

\* Registers.filter: the registers of dict that match every predicate that is
\* not None, as a new dict over the same references; raises when none match.
Registers_filter(h, dict, type, saved_by, is_reserved, is_in_use) ==
    LET s0 == IF type = None
              THEN Values(dict)
              ELSE SelectSeq(Values(dict), LAMBDA a : h[a].type = type)
        s1 == IF saved_by # None
              THEN SelectSeq(s0, LAMBDA a : h[a].saved_by = saved_by)
              ELSE s0
        s2 == IF is_reserved # None
              THEN SelectSeq(s1, LAMBDA a : B(h[a].is_reserved) = is_reserved)
              ELSE s1
        s3 == IF is_in_use # None
              THEN SelectSeq(s2, LAMBDA a : B(h[a].is_in_use) = is_in_use)
              ELSE s2
    IN  IF s3 = <<>>
        THEN ValueError("No registers matching the filter were found")
        ELSE [tag |-> "Registers", registers |-> DictOfRegs(h, s3)]

\* Registers.get_register without the scan of the ABI names
Registers_get_register_NoAlias(h, dict, name) == DictGet(dict, name)

\* Registers.get_register: by dict key, then the first register whose
\* abi_name is name, else None
Registers_get_register(h, dict, name) ==
    LET reg == DictGet(dict, name)
        abi == SelectSeq(Values(dict), LAMBDA a : h[a].abi_name = name)
    IN  IF reg = NoneVal
        THEN IF abi # <<>> THEN Ref(abi[1]) ELSE NoneVal
        ELSE reg

\* ---------------------------------------------------------------------------
\* State.  pools[1] is the dict of the Registers object built by
\* Registers(); pools[2] is the dict of the Registers object the caller holds
\* from its latest successful filter call (<<>> until there is one).
\* ret is the call the caller has just made and not yet moved on from: its
\* name, receiver, arguments and outcome (NoCall between two calls).
\* ---------------------------------------------------------------------------

PoolIds == {1, 2}

Exists(p) == pools[p] # <<>>

\* Argument domains of the calls
TypeArgs == {None} \cup RegisterType

SavedByArgs == {None} \cup RegisterSaveType

FlagArgs == {None, "True", "False"}

\* "Omitted": the caller does not pass the argument and the default applies
Omitted == "Omitted"

\* default of is_reserved in the signature of pick_register
PickDefaultReserved == "False"

\* default of is_reserved in the signature of filter
FilterDefaultReserved == None

\* pick_register with the default of filter for is_reserved
PickReservedArg_NoDefault(a) == IF a = Omitted THEN None ELSE a

PickReservedArg(a) == IF a = Omitted THEN PickDefaultReserved ELSE a

FilterReservedArg(a) == IF a = Omitted THEN FilterDefaultReserved ELSE a

LookupNames ==
    {DefaultRegisters[i].name : i \in 1..Len(DefaultRegisters)}
    \cup {DefaultRegisters[i].abi_name : i \in 1..Len(DefaultRegisters)}
    \cup {"nonexistent"}

NoArgs == [type |-> None, saved_by |-> None, is_reserved |-> None,
           is_in_use |-> None, reserve |-> FALSE, name |-> None]

NoCall == [op |-> "none", pool |-> 0, args |-> NoArgs, result |-> NoneVal]

\* the caller is between two calls
Idle == ret.op = "none"

Init ==
    /\ heap = DefaultRegisters
    /\ pools = [p \in PoolIds |->
                  IF p = 1
                  THEN DictOfRegs(DefaultRegisters,
                                  [i \in 1..Len(DefaultRegisters) |-> i])
                  ELSE <<>>]
    /\ ret = NoCall
    /\ isa = <<>>
    /\ asm = <<>>

\* reset_usage clearing is_in_use only
ResetFlags_InUseOnly(h, dict) ==
    [a \in 1..Len(h) |->
       IF a \in Refs(dict) THEN [h[a] EXCEPT !.is_in_use = FALSE] ELSE h[a]]

\* the loop of reset_usage: both flags cleared on every register of dict
ResetFlags(h, dict) ==
    [a \in 1..Len(h) |->
       IF a \in Refs(dict)
       THEN [h[a] EXCEPT !.is_in_use = FALSE, !.is_reserved = FALSE]
       ELSE h[a]]

\* Registers.reset_usage
reset_usage(p) ==
    /\ Exists(p)
    /\ heap' = ResetFlags(heap, pools[p])
    /\ ret' = [op |-> "reset_usage", pool |-> p, args |-> NoArgs,
               result |-> NoneVal]
    /\ UNCHANGED <<pools, isa, asm>>

\* reserve_register setting the wrong flag
MarkReserved_InUse(h, a) == [h EXCEPT ![a].is_in_use = TRUE]

\* reg.is_reserved = True
MarkReserved(h, a) == [h EXCEPT ![a].is_reserved = TRUE]

\* Registers.reserve_register
reserve_register(p, name) ==
    /\ Exists(p)
    /\ LET reg == Registers_get_register(heap, pools[p], name)
       IN  IF reg = NoneVal
           THEN /\ ret' = [op |-> "reserve_register", pool |-> p,
                           args |-> [NoArgs EXCEPT !.name = name],
                           result |-> ValueError("Invalid register name")]
                /\ UNCHANGED heap
           ELSE /\ heap' = MarkReserved(heap, reg.ref)
                /\ ret' = [op |-> "reserve_register", pool |-> p,
                           args |-> [NoArgs EXCEPT !.name = name],
                           result |-> reg]
    /\ UNCHANGED <<pools, isa, asm>>

\* pick_register without the second try block: no preference for registers
\* that are not in use
PickCandidates_NoPreference(h, dict, type, saved_by, is_reserved, is_in_use) ==
    LET regs == Registers_filter(h, dict, type, saved_by, is_reserved, is_in_use)
    IN  IF IsError(regs)
        THEN ValueError("No appropriate register found")
        ELSE [tag |-> "list", items |-> Values(regs.registers)]

\* The two try blocks of pick_register: the list choice draws from, or the
\* ValueError of the first block.  The second block keeps the registers of
\* the filtered pool that are not in use, and all of them when there is none.
PickCandidates(h, dict, type, saved_by, is_reserved, is_in_use) ==
    LET regs == Registers_filter(h, dict, type, saved_by, is_reserved, is_in_use)
    IN  IF IsError(regs)
        THEN ValueError("No appropriate register found")
        ELSE LET unused_regs == Registers_filter(h, regs.registers, None, None,
                                                 FilterDefaultReserved, "False")
             IN  [tag |-> "list",
                  items |-> IF IsError(unused_regs)
                            THEN Values(regs.registers)
                            ELSE Values(unused_regs.registers)]

\* pick_register reserving the chosen register whatever reserve says
MarkChosen_AlwaysReserve(h, chosen_reg, reserve) ==
    [h EXCEPT ![chosen_reg].is_in_use = TRUE, ![chosen_reg].is_reserved = TRUE]

\* chosen_reg.is_in_use = True; if reserve: chosen_reg.is_reserved = True
MarkChosen(h, chosen_reg, reserve) ==
    [h EXCEPT ![chosen_reg].is_in_use = TRUE,
              ![chosen_reg].is_reserved = IF reserve THEN TRUE ELSE @]

\* Registers.pick_register.  is_reserved may be Omitted; random_engine.choice
\* is a free choice among regs_list.
pick_register(p, type, saved_by, is_reserved, is_in_use, reserve) ==
    /\ Exists(p)
    /\ LET args == [NoArgs EXCEPT !.type = type, !.saved_by = saved_by,
                                  !.is_reserved = is_reserved,
                                  !.is_in_use = is_in_use,
                                  !.reserve = reserve]
           regs_list == PickCandidates(heap, pools[p], type, saved_by,
                                       PickReservedArg(is_reserved), is_in_use)
       IN  IF IsError(regs_list)
           THEN /\ ret' = [op |-> "pick_register", pool |-> p, args |-> args,
                           result |-> regs_list]
                /\ UNCHANGED heap
           ELSE \E i \in 1..Len(regs_list.items) :
                  LET chosen_reg == regs_list.items[i]
                  IN  /\ heap' = MarkChosen(heap, chosen_reg, reserve)
                      /\ ret' = [op |-> "pick_register", pool |-> p,
                                 args |-> args, result |-> Ref(chosen_reg)]
    /\ UNCHANGED <<pools, isa, asm>>

\* Registers.filter building the new pool from copies of the Register records
filter_Copying(p, type, saved_by, is_reserved, is_in_use) ==
    /\ Exists(p)
    /\ LET args == [NoArgs EXCEPT !.type = type, !.saved_by = saved_by,
                                  !.is_reserved = is_reserved,
                                  !.is_in_use = is_in_use]
           r == Registers_filter(heap, pools[p], type, saved_by,
                                 FilterReservedArg(is_reserved), is_in_use)
       IN  IF IsError(r)
           THEN /\ ret' = [op |-> "filter", pool |-> p, args |-> args,
                           result |-> r]
                /\ UNCHANGED <<heap, pools>>
           ELSE /\ heap' = heap \o [i \in 1..Len(r.registers) |->
                                      heap[r.registers[i].ref]]
                /\ pools' = [pools EXCEPT ![2] =
                               [i \in 1..Len(r.registers) |->
                                  [key |-> r.registers[i].key,
                                   ref |-> Len(heap) + i]]]
                /\ ret' = [op |-> "filter", pool |-> p, args |-> args,
                           result |-> [tag |-> "Registers", pool |-> 2]]
    /\ UNCHANGED <<isa, asm>>

\* Registers.filter, the caller keeping the returned Registers object
filter(p, type, saved_by, is_reserved, is_in_use) ==
    /\ Exists(p)
    /\ LET args == [NoArgs EXCEPT !.type = type, !.saved_by = saved_by,
                                  !.is_reserved = is_reserved,
                                  !.is_in_use = is_in_use]
           r == Registers_filter(heap, pools[p], type, saved_by,
                                 FilterReservedArg(is_reserved), is_in_use)
       IN  IF IsError(r)
           THEN /\ ret' = [op |-> "filter", pool |-> p, args |-> args,
                           result |-> r]
                /\ UNCHANGED <<pools, isa, asm>>
           ELSE /\ pools' = [pools EXCEPT ![2] = r.registers]
                /\ ret' = [op |-> "filter", pool |-> p, args |-> args,
                           result |-> [tag |-> "Registers", pool |-> 2]]
    /\ UNCHANGED <<heap, isa, asm>>

\* Registers.get_register
get_register(p, name) ==
    /\ Exists(p)
    /\ ret' = [op |-> "get_register", pool |-> p,
               args |-> [NoArgs EXCEPT !.name = name],
               result |-> Registers_get_register(heap, pools[p], name)]
    /\ UNCHANGED <<heap, pools, isa, asm>>

\* the caller moves on from the call it made
Return ==
    /\ ~Idle
    /\ ret' = NoCall
    /\ UNCHANGED <<heap, pools, isa, asm>>

\* the caller makes one call at a time and moves on from it before the next
Next ==
    \/ Idle /\ \E p \in PoolIds : reset_usage(p)
    \/ Idle /\ \E p \in PoolIds, name \in LookupNames :
                 reserve_register(p, name)
    \/ Idle /\ \E p \in PoolIds, type \in TypeArgs, saved_by \in SavedByArgs,
                 is_reserved \in FlagArgs \cup {Omitted}, is_in_use \in FlagArgs,
                 reserve \in BOOLEAN :
                   pick_register(p, type, saved_by, is_reserved, is_in_use,
                                 reserve)
    \/ Idle /\ \E p \in PoolIds, type \in TypeArgs, saved_by \in SavedByArgs,
                 is_reserved \in FlagArgs \cup {Omitted}, is_in_use \in FlagArgs :
                   filter(p, type, saved_by, is_reserved, is_in_use)
    \/ Idle /\ \E p \in PoolIds, name \in LookupNames : get_register(p, name)
    \/ Return

Spec == Init /\ [][Next]_vars

\* ---------------------------------------------------------------------------
\* Properties of the register pool
\* ---------------------------------------------------------------------------

\* the registers of dict that satisfy every predicate that is supplied
Selected(h, dict, type, saved_by, is_reserved, is_in_use) ==
    {a \in Refs(dict) :
       /\ type = None \/ h[a].type = type
       /\ saved_by = None \/ h[a].saved_by = saved_by
       /\ is_reserved = None \/ h[a].is_reserved = (is_reserved = "True")
       /\ is_in_use = None \/ h[a].is_in_use = (is_in_use = "True")}

\* the two flags of the register read under its name through dict
FlagsVia(h, dict, name) ==
    LET a == DictGet(dict, name).ref
    IN  <<h[a].is_reserved, h[a].is_in_use>>

\* what a pick step must satisfy, given the set the predicates select
PickPost(set) ==
    /\ IsError(ret'.result) => set = {}
    /\ ~IsError(ret'.result) =>
         /\ ret'.result.tag = "Register"
         /\ ret'.result.ref \in set
         /\ (\E a \in set : ~heap[a].is_in_use)
              => ~heap[ret'.result.ref].is_in_use
         /\ heap[ret'.result.ref].is_in_use
              => \A a \in set : heap[a].is_in_use

\* C1 as stated: pick_register returns a register of the set filter() selects
\* when called with the same predicates (an omitted predicate being omitted in
\* the filter call as well), an unused one if that set has one, an in-use one
\* only if all of that set is in use, and fails only if that set is empty.
C1_AsStated ==
    [][ret'.op = "pick_register" =>
         PickPost(Selected(heap, pools[ret'.pool], ret'.args.type,
                           ret'.args.saved_by,
                           FilterReservedArg(ret'.args.is_reserved),
                           ret'.args.is_in_use))]_vars

\* C1 amended: the same, the set being the one filter() selects with the
\* predicates pick_register passes on: reserved=False when the caller omits
\* the reserved predicate.
C1_PickWithinFilter ==
    [][ret'.op = "pick_register" =>
         PickPost(Selected(heap, pools[ret'.pool], ret'.args.type,
                           ret'.args.saved_by,
                           PickReservedArg(ret'.args.is_reserved),
                           ret'.args.is_in_use))]_vars

\* a pick that omitted the reserved predicate returned a register while
\* another register of the pool, matching the other predicates, is not in use
C1_Witness ==
    /\ ret.op = "pick_register"
    /\ ret.args.is_reserved = Omitted
    /\ ret.result.tag = "Register"
    /\ \E a \in Selected(heap, pools[ret.pool], ret.args.type,
                         ret.args.saved_by, None, ret.args.is_in_use) :
         a # ret.result.ref /\ ~heap[a].is_in_use

\* C2: a successful pick sets is_in_use on the returned register, sets
\* is_reserved on it when reserve is set and leaves it as it was otherwise,
\* and changes nothing else in any register record.
C2_PickMarksOnlyChosen ==
    [][(ret'.op = "pick_register" /\ ret'.result.tag = "Register") =>
         LET r == ret'.result.ref
         IN  /\ Len(heap') = Len(heap)
             /\ heap'[r].is_in_use
             /\ ret'.args.reserve => heap'[r].is_reserved
             /\ ~ret'.args.reserve => heap'[r].is_reserved = heap[r].is_reserved
             /\ heap'[r] = [heap[r] EXCEPT !.is_in_use = heap'[r].is_in_use,
                                           !.is_reserved = heap'[r].is_reserved]
             /\ \A a \in 1..Len(heap) : a # r => heap'[a] = heap[a]]_vars

\* a pick with reserve set returned a register that now has both flags, and
\* another register of the pool has neither
C2_Witness ==
    /\ ret.op = "pick_register"
    /\ ret.args.reserve
    /\ ret.result.tag = "Register"
    /\ heap[ret.result.ref].is_in_use /\ heap[ret.result.ref].is_reserved
    /\ \E a \in Refs(pools[ret.pool]) :
         ~heap[a].is_in_use /\ ~heap[a].is_reserved

\* C3: after reset_usage on a pool every register of that pool has
\* is_reserved and is_in_use false.
C3_ResetClearsPool ==
    ret.op = "reset_usage" =>
      \A name \in Keys(pools[ret.pool]) :
        FlagsVia(heap, pools[ret.pool], name) = <<FALSE, FALSE>>

\* reset_usage ran on the pool built by Registers() after a filter call had
\* returned a pool: x1, constructed reserved, is no longer reserved
C3_Witness ==
    /\ ret.op = "reset_usage"
    /\ ret.pool = 1
    /\ Exists(2)
    /\ HasKey(pools[1], "x1")
    /\ FlagsVia(heap, pools[1], "x1") = <<FALSE, FALSE>>

\* C4: a register that is in both pools shows the same flags whichever pool
\* it is read through, after every call on either pool.
C4_ViewsShareRecords ==
    \A p \in PoolIds, q \in PoolIds :
      \A name \in Keys(pools[p]) \cap Keys(pools[q]) :
        FlagsVia(heap, pools[p], name) = FlagsVia(heap, pools[q], name)

\* a register was picked through the filtered pool and marked reserved, and
\* it reads as in use and reserved through the original pool
C4_Witness ==
    /\ ret.op = "pick_register"
    /\ ret.pool = 2
    /\ ret.args.reserve
    /\ ret.result.tag = "Register"
    /\ Len(pools[2]) < Len(pools[1])
    /\ FlagsVia(heap, pools[1], heap[ret.result.ref].name) = <<TRUE, TRUE>>

\* C5: filter returns a pool of exactly the registers of the receiver that
\* satisfy every supplied predicate, keyed by their names, raises instead of
\* returning an empty pool, and changes no register and no other pool.
C5_FilterExact ==
    [][ret'.op = "filter" =>
         LET sel == Selected(heap, pools[ret'.pool], ret'.args.type,
                             ret'.args.saved_by,
                             FilterReservedArg(ret'.args.is_reserved),
                             ret'.args.is_in_use)
         IN  /\ heap' = heap
             /\ pools'[1] = pools[1]
             /\ IsError(ret'.result) <=> sel = {}
             /\ IsError(ret'.result) => pools' = pools
             /\ ~IsError(ret'.result) =>
                  /\ ret'.result.tag = "Registers"
                  /\ Refs(pools'[ret'.result.pool]) = sel
                  /\ Len(pools'[ret'.result.pool]) = Cardinality(sel)
                  /\ \A i \in 1..Len(pools'[ret'.result.pool]) :
                       pools'[ret'.result.pool][i].key =
                         heap[pools'[ret'.result.pool][i].ref].name]_vars

\* a filter with two predicates supplied returned a pool smaller than the
\* original one
C5_Witness ==
    /\ ret.op = "filter"
    /\ ret.result.tag = "Registers"
    /\ ret.args.type # None /\ ret.args.is_in_use # None
    /\ Len(pools[2]) < Len(pools[1])

\* what a reserve step does when the lookup finds the register at address a
ReserveFound(a) ==
    /\ ret'.result = Ref(a)
    /\ heap'[a].is_reserved
    /\ heap' = [heap EXCEPT ![a].is_reserved = TRUE]

\* what a reserve step does when the lookup finds nothing
ReserveMissing ==
    /\ IsError(ret'.result)
    /\ heap' = heap

\* C6 as stated: reserve_register finds the register by architectural name
\* only; any other name fails and changes no flag.
C6_AsStated ==
    [][ret'.op = "reserve_register" =>
         LET byName == {a \in Refs(pools[ret'.pool]) :
                          heap[a].name = ret'.args.name}
         IN  IF byName # {}
             THEN \E a \in byName : ReserveFound(a)
             ELSE ReserveMissing]_vars

\* C6 amended: reserve_register finds the register by architectural name,
\* or else by ABI alias; it sets is_reserved on that register, returns it and
\* changes nothing else; a name that is neither fails and changes no flag.
C6_ReserveByNameOrAlias ==
    [][ret'.op = "reserve_register" =>
         LET byName == {a \in Refs(pools[ret'.pool]) :
                          heap[a].name = ret'.args.name}
             byAbi  == {a \in Refs(pools[ret'.pool]) :
                          heap[a].abi_name = ret'.args.name}
         IN  /\ pools' = pools
             /\ IF byName # {}
                THEN \E a \in byName : ReserveFound(a)
                ELSE IF byAbi # {}
                THEN \E a \in byAbi : ReserveFound(a)
                ELSE ReserveMissing]_vars

\* reserve_register("fs0") returned f8, which was not reserved by
\* construction and now is
C6_Witness ==
    /\ ret.op = "reserve_register"
    /\ ret.args.name = "fs0"
    /\ ret.result.tag = "Register"
    /\ heap[ret.result.ref].name = "f8"
    /\ heap[ret.result.ref].is_reserved

\* C7: get_register returns the register whose architectural name is name,
\* else one whose ABI alias is name, else None; it changes nothing; and on the
\* pool built by Registers() "ra" and "x1" give the same record.
C7_GetByNameThenAlias ==
    [][ret'.op = "get_register" =>
         LET byName == {a \in Refs(pools[ret'.pool]) :
                          heap[a].name = ret'.args.name}
             byAbi  == {a \in Refs(pools[ret'.pool]) :
                          heap[a].abi_name = ret'.args.name}
         IN  /\ heap' = heap
             /\ pools' = pools
             /\ IF byName # {}
                THEN ret'.result.tag = "Register" /\ ret'.result.ref \in byName
                ELSE IF byAbi # {}
                THEN ret'.result.tag = "Register" /\ ret'.result.ref \in byAbi
                ELSE ret'.result = NoneVal
             /\ (ret'.pool = 1 /\ ret'.args.name = "ra") =>
                  /\ ret'.result.tag = "Register"
                  /\ ret'.result =
                       Registers_get_register(heap, pools[1], "x1")
                  /\ heap[ret'.result.ref].name = "x1"]_vars

\* get_register("ra") on the pool built by Registers() returned x1
C7_Witness ==
    /\ ret.op = "get_register"
    /\ ret.pool = 1
    /\ ret.args.name = "ra"
    /\ ret.result.tag = "Register"
    /\ heap[ret.result.ref].name = "x1"

\* each field is supplied by at most one of the two sets of predicates
Independent(p1, p2) ==
    \A f \in {"type", "saved_by", "is_reserved", "is_in_use"} :
      p1[f] = None \/ p2[f] = None

\* the two sets of predicates in one
Combined(p1, p2) ==
    [f \in {"type", "saved_by", "is_reserved", "is_in_use"} |->
       IF p1[f] # None THEN p1[f] ELSE p2[f]]

Predicates ==
    [type : TypeArgs, saved_by : SavedByArgs, is_reserved : FlagArgs,
     is_in_use : FlagArgs]

FilterBy(h, dict, p) ==
    Registers_filter(h, dict, p.type, p.saved_by, p.is_reserved, p.is_in_use)

\* C16: when the pool the caller holds is what filter(p1) returns on the
\* pool built by Registers(), then filter(p2) on it, p2 being on other fields
\* than p1, returns the same set of registers as filter(p1, p2) on the pool
\* built by Registers(), and fails exactly when that call fails; this for
\* every p1 and p2, so in either order.
C16_FilterComposes ==
    [][(ret'.op = "filter" /\ ret'.pool = 2) =>
         LET p2 == [type        |-> ret'.args.type,
                    saved_by    |-> ret'.args.saved_by,
                    is_reserved |-> FilterReservedArg(ret'.args.is_reserved),
                    is_in_use   |-> ret'.args.is_in_use]
         IN  \A p1 \in Predicates :
               LET first == FilterBy(heap, pools[1], p1)
               IN  (/\ Independent(p1, p2)
                    /\ ~IsError(first)
                    /\ first.registers = pools[2]) =>
                     LET single == FilterBy(heap, pools[1], Combined(p1, p2))
                     IN  /\ IsError(ret'.result) <=> IsError(single)
                         /\ ~IsError(single) =>
                              Refs(pools'[2]) = Refs(single.registers)]_vars

\* filter(is_in_use=False) on the pool that filter(type=X) returns gave the
\* registers that filter(type=X, is_in_use=False) selects, fewer than the
\* pool built by Registers() holds
C16_Witness ==
    /\ ret.op = "filter"
    /\ ret.pool = 2
    /\ ret.args.type = None /\ ret.args.saved_by = None
    /\ ret.args.is_reserved = None /\ ret.args.is_in_use = "False"
    /\ ret.result.tag = "Registers"
    /\ Refs(pools[2]) = Selected(heap, pools[1], "X", None, None, "False")
    /\ Len(pools[2]) < Len(pools[1])

\* C18: a pick that omits the reserved predicate never returns a register
\* that is reserved, and fails when every register matching its other
\* predicates is reserved; a register stays reserved, once pick(reserve=True)
\* or reserve_register has marked it or from construction (x0 to x4), until
\* reset_usage is called.
C18_PickSkipsReserved ==
    /\ \A a \in Refs(pools[1]) :
         heap[a].name \in {"x0", "x1", "x2", "x3", "x4"} => heap[a].is_reserved
    /\ [][/\ (ret'.op = "pick_register" /\ ret'.args.is_reserved = Omitted) =>
               /\ ret'.result.tag = "Register" =>
                    ~heap[ret'.result.ref].is_reserved
               /\ (\A a \in Selected(heap, pools[ret'.pool], ret'.args.type,
                                     ret'.args.saved_by, None,
                                     ret'.args.is_in_use) :
                     heap[a].is_reserved) => IsError(ret'.result)
          /\ (ret'.op \in {"pick_register", "reserve_register"}
              /\ ret'.result.tag = "Register"
              /\ (ret'.op = "pick_register" => ret'.args.reserve)) =>
               heap'[ret'.result.ref].is_reserved
          /\ \A a \in 1..Len(heap) :
               (heap[a].is_reserved /\ ~heap'[a].is_reserved) =>
                 ret'.op = "reset_usage"]_vars

\* a pick for a float register that omitted the reserved predicate failed,
\* the float registers of the pool having been reserved since construction
C18_Witness ==
    /\ ret.op = "pick_register"
    /\ ret.args.is_reserved = Omitted
    /\ ret.args.type = "F"
    /\ IsError(ret.result)
    /\ \E a \in Refs(pools[ret.pool]) :
         heap[a].type = "F" /\ heap[a].is_reserved

\* ---------------------------------------------------------------------------
\* Text helpers
\* ---------------------------------------------------------------------------

Digits == <<"0", "1", "2", "3", "4", "5", "6", "7", "8", "9",
            "a", "b", "c", "d", "e", "f">>

\* digits of a natural number in the given base, most significant first
RECURSIVE NatDigits(_, _)
NatDigits(n, base) ==
    IF n < base THEN Digits[n + 1]
    ELSE NatDigits(n \div base, base) \o Digits[(n % base) + 1]

\* hex(n): the sign, then 0x, then the lowercase digits of the magnitude
Hex(n) == IF n < 0 THEN "-0x" \o NatDigits(-n, 16) ELSE "0x" \o NatDigits(n, 16)

\* str(n) of an int
Decimal(n) == IF n < 0 THEN "-" \o NatDigits(-n, 10) ELSE NatDigits(n, 10)

UpperChars == <<"A", "B", "C", "D", "E", "F", "G", "H", "I", "J", "K", "L", "M",
                "N", "O", "P", "Q", "R", "S", "T", "U", "V", "W", "X", "Y", "Z">>

LowerChars == <<"a", "b", "c", "d", "e", "f", "g", "h", "i", "j", "k", "l", "m",
                "n", "o", "p", "q", "r", "s", "t", "u", "v", "w", "x", "y", "z">>

LowerChar(c) ==
    IF \E k \in 1..Len(UpperChars) : UpperChars[k] = c
    THEN LowerChars[CHOOSE k \in 1..Len(UpperChars) : UpperChars[k] = c]
    ELSE c

\* str.lower()
RECURSIVE Lower(_)
Lower(str) ==
    IF str = "" THEN ""
    ELSE LowerChar(SubSeq(str, 1, 1)) \o Lower(SubSeq(str, 2, Len(str)))

\* join putting the strings in reverse order
RECURSIVE Join_Reversed(_, _)
Join_Reversed(sep, strs) ==
    IF strs = <<>> THEN ""
    ELSE IF Len(strs) = 1 THEN strs[1]
    ELSE Join_Reversed(sep, Tail(strs)) \o sep \o strs[1]

\* sep.join(strs)
RECURSIVE Join(_, _)
Join(sep, strs) ==
    IF strs = <<>> THEN ""
    ELSE IF Len(strs) = 1 THEN strs[1]
    ELSE strs[1] \o sep \o Join(sep, Tail(strs))

\* ---------------------------------------------------------------------------
\* Operand values: Python objects by class
\* ---------------------------------------------------------------------------

RegisterVal(r) == [cls |-> "Register", reg |-> r]

CSRRegister(name, description, address) ==
    [cls |-> "CSRRegister", name |-> name, description |-> description,
     address |-> address]

Label(name) == [cls |-> "Label", name |-> name]

IntVal(n) == [cls |-> "int", val |-> n]

TupleVal(items) == [cls |-> "tuple", items |-> items]

\* str(v) as the f-string of the BASE_OFFSET branch applies it: an int in
\* decimal, a Label by Label.__str__
Str(v) ==
    IF v.cls = "int" THEN Decimal(v.val)
    ELSE IF v.cls = "Label" THEN v.name
    ELSE "<" \o v.cls \o ">"

\* ---------------------------------------------------------------------------
\* OperandType, InstructionFormat, InstructionDefinition
\* ---------------------------------------------------------------------------

OperandType == {"REGISTER", "IMMEDIATE", "LABEL", "FREGISTER", "BASE_OFFSET",
                "CSR"}

InstructionFormat ==
    [R          |-> <<"REGISTER", "REGISTER", "REGISTER">>,
     I          |-> <<"REGISTER", "REGISTER", "IMMEDIATE">>,
     B          |-> <<"REGISTER", "REGISTER", "LABEL">>,
     U          |-> <<"REGISTER", "IMMEDIATE">>,
     J          |-> <<"REGISTER", "LABEL">>,
     FR         |-> <<"FREGISTER", "FREGISTER", "FREGISTER">>,
     CSR_R      |-> <<"REGISTER", "CSR", "REGISTER">>,
     CSR_I      |-> <<"REGISTER", "CSR", "IMMEDIATE">>,
     LOAD_STORE |-> <<"REGISTER", "BASE_OFFSET">>]

InstructionDefinition(mnemonic, format, extension) ==
    [mnemonic |-> mnemonic, format |-> format, extension |-> extension]

\* InstructionSet._default_instructions
DefaultInstructions ==
    << [key |-> "ADD",    val |-> InstructionDefinition("ADD", "R", "I")],
       [key |-> "XOR",    val |-> InstructionDefinition("XOR", "R", "I")],
       [key |-> "ADDI",   val |-> InstructionDefinition("ADDI", "I", "I")],
       [key |-> "SW",     val |-> InstructionDefinition("SW", "LOAD_STORE", "I")],
       [key |-> "BEQ",    val |-> InstructionDefinition("BEQ", "B", "I")],
       [key |-> "LUI",    val |-> InstructionDefinition("LUI", "U", "I")],
       [key |-> "JAL",    val |-> InstructionDefinition("JAL", "J", "I")],
       [key |-> "FADD.S", val |-> InstructionDefinition("FADD.S", "FR", "F")],
       [key |-> "CSRRW",  val |-> InstructionDefinition("CSRRW", "CSR_R", "I")],
       [key |-> "CSRRCI", val |-> InstructionDefinition("CSRRCI", "CSR_I", "I")],
       [key |-> "LW",     val |-> InstructionDefinition("LW", "LOAD_STORE", "I")] >>

\* the ValueError of the operand-count check
ArityError(expected, got) ==
    [tag |-> "ValueError", pos |-> 0,
     msg |-> "Expected " \o Decimal(expected) \o " operands but got "
             \o Decimal(got) \o "."]

\* the ValueError of an operand check; the message goes on with str(operand)
OperandError(what, pos) ==
    [tag |-> "ValueError", pos |-> pos,
     msg |-> "Expected " \o what \o " for operand " \o Decimal(pos)]

\* the ValueError of unpacking a tuple that does not have two items
UnpackError ==
    [tag |-> "ValueError", pos |-> 0, msg |-> "values to unpack (expected 2)"]

\* reading .abi_name of an object that has none
AttributeError ==
    [tag |-> "AttributeError", pos |-> 0, msg |-> "object has no attribute 'abi_name'"]

Text(str) == [tag |-> "str", text |-> str]

\* one pass of the loop body of generate: the text of operand i, or the
\* exception it raises
FormatOperand(expected_type, operand, i) ==
    CASE expected_type = "REGISTER" ->
           IF operand.cls # "Register" \/ operand.reg.type # "X"
           THEN OperandError("a general-purpose register", i + 1)
           ELSE Text(operand.reg.abi_name)
      [] expected_type = "FREGISTER" ->
           IF operand.cls # "Register" \/ operand.reg.type # "F"
           THEN OperandError("a floating-point register", i + 1)
           ELSE Text(operand.reg.abi_name)
      [] expected_type = "CSR" ->
           IF operand.cls # "CSRRegister"
           THEN OperandError("a CSR register", i + 1)
           ELSE Text(operand.name)
      [] expected_type = "LABEL" ->
           IF operand.cls # "Label"
           THEN OperandError("a label", i + 1)
           ELSE Text(operand.name)
      [] expected_type = "IMMEDIATE" ->
           IF operand.cls # "int"
           THEN OperandError("an integer immediate value", i + 1)
           ELSE Text(Hex(operand.val))
      [] expected_type = "BASE_OFFSET" ->
           IF operand.cls # "tuple"
           THEN OperandError("a tuple(offset(base))", i + 1)
           ELSE IF Len(operand.items) # 2
           THEN UnpackError
           ELSE LET base_register == operand.items[1]
                    offset        == operand.items[2]
                IN  IF base_register.cls # "Register"
                    THEN AttributeError
                    ELSE Text(Str(offset) \o "(" \o base_register.reg.abi_name
                              \o ")")

\* the loop of generate from operand i (0-based) on: the list of operand
\* texts, or the first exception
RECURSIVE FormatOperands(_, _, _, _)
FormatOperands(format, operands, i, formatted_operands) ==
    IF i >= Len(operands) THEN [tag |-> "list", items |-> formatted_operands]
    ELSE LET r == FormatOperand(format[i + 1], operands[i + 1], i)
         IN  IF r.tag # "str" THEN r
             ELSE FormatOperands(format, operands, i + 1,
                                 Append(formatted_operands, r.text))

\* generate checking the operands it has before it checks their number
InstructionDefinition_generate_OperandsFirst(self, operands) ==
    LET format == InstructionFormat[self.format]
        n == IF Len(operands) < Len(format) THEN Len(operands) ELSE Len(format)
        formatted_operands ==
            FormatOperands(format, SubSeq(operands, 1, n), 0, <<>>)
    IN  IF formatted_operands.tag # "list"
        THEN formatted_operands
        ELSE IF Len(operands) # Len(format)
        THEN ArityError(Len(format), Len(operands))
        ELSE Text(Lower(self.mnemonic) \o " "
                  \o Join(", ", formatted_operands.items))

\* InstructionDefinition.generate
InstructionDefinition_generate(self, operands) ==
    LET format == InstructionFormat[self.format]
    IN  IF Len(operands) # Len(format)
        THEN ArityError(Len(format), Len(operands))
        ELSE LET formatted_operands == FormatOperands(format, operands, 0, <<>>)
             IN  IF formatted_operands.tag # "list"
                 THEN formatted_operands
                 ELSE Text(Lower(self.mnemonic) \o " "
                           \o Join(", ", formatted_operands.items))

\* ---------------------------------------------------------------------------
\* Calls of generate
\* ---------------------------------------------------------------------------

\* longest operand tuple passed to generate
MaxOperands == 3

\* largest magnitude of an integer operand
MaxImm == 255

Imms == {-MaxImm, 0, 5, MaxImm}

\* the objects passed as operands
OperandValues ==
    {RegisterVal(Register("x10", None, "X", "Caller", FALSE, FALSE)),
     RegisterVal(Register("x11", None, "X", "Caller", FALSE, FALSE)),
     RegisterVal(RegisterCatalog[1].reg),
     RegisterVal(RegisterCatalog[4].reg),
     CSRRegister("mstatus", "Machine status register", 768),
     Label("test_label")}
    \cup {IntVal(n) : n \in Imms}
    \cup {TupleVal(<<RegisterVal(RegisterCatalog[1].reg), IntVal(4)>>),
          TupleVal(<<RegisterVal(RegisterCatalog[1].reg), Label("test_label")>>),
          TupleVal(<<IntVal(5), IntVal(4)>>),
          TupleVal(<<RegisterVal(RegisterCatalog[1].reg), IntVal(4), IntVal(4)>>)}

OperandTuples == UNION {[1..n -> OperandValues] : n \in 0..MaxOperands}

generate(k, operands) ==
    /\ ret' = [op |-> "generate", pool |-> 0,
               args |-> [definition |-> DefaultInstructions[k].val,
                         operands |-> operands],
               result |-> InstructionDefinition_generate(
                              DefaultInstructions[k].val, operands)]
    /\ UNCHANGED <<heap, pools, isa, asm>>

NextRender ==
    \/ Idle /\ \E k \in 1..Len(DefaultInstructions), operands \in OperandTuples :
                 generate(k, operands)
    \/ Return

SpecRender == Init /\ [][NextRender]_vars

\* ---------------------------------------------------------------------------
\* Properties of generate
\* ---------------------------------------------------------------------------

\* an operand is of the kind its position in the format requires
Conforms(kind, v) ==
    CASE kind = "REGISTER"    -> v.cls = "Register" /\ v.reg.type = "X"
      [] kind = "FREGISTER"   -> v.cls = "Register" /\ v.reg.type = "F"
      [] kind = "CSR"         -> v.cls = "CSRRegister"
      [] kind = "LABEL"       -> v.cls = "Label"
      [] kind = "IMMEDIATE"   -> v.cls = "int"
      [] kind = "BASE_OFFSET" -> /\ v.cls = "tuple"
                                 /\ Len(v.items) = 2
                                 /\ v.items[1].cls = "Register"
                                 /\ v.items[2].cls = "int"

RetFormat == InstructionFormat[ret.args.definition.format]

RetOperands == ret.args.operands

\* the positions (1-based) of the operands of the call that do not conform
Offending ==
    {i \in 1..Len(RetOperands) : ~Conforms(RetFormat[i], RetOperands[i])}

\* the call is a generate with as many operands as the format has kinds
RightArity ==
    /\ ret.op = "generate"
    /\ Len(RetOperands) = Len(RetFormat)

\* C8 as stated: when an operand does not conform, generate raises the
\* operand-kind ValueError, naming the position of an operand that does not
\* conform; it neither returns text nor raises anything else.
C8_AsStated ==
    (RightArity /\ Offending # {}) =>
      /\ ret.result.tag = "ValueError"
      /\ ret.result.pos \in Offending

\* C9: when the number of operands differs from the length of the format,
\* generate raises the operand-count ValueError, whatever the operands are.
C9_ArityFirst ==
    (ret.op = "generate" /\ Len(RetOperands) # Len(RetFormat)) =>
      /\ ret.result.tag = "ValueError"
      /\ ret.result.pos = 0
      /\ ret.result.msg = "Expected " \o Decimal(Len(RetFormat))
                          \o " operands but got " \o Decimal(Len(RetOperands))
                          \o "."

\* generate was called with too few operands, the first of them of the wrong
\* kind, and raised
C9_Witness ==
    /\ ret.op = "generate"
    /\ Len(RetOperands) >= 1
    /\ Len(RetOperands) < Len(RetFormat)
    /\ ~Conforms(RetFormat[1], RetOperands[1])
    /\ ret.result.tag = "ValueError"

StartsWith(str, prefix) ==
    /\ Len(str) >= Len(prefix)
    /\ SubSeq(str, 1, Len(prefix)) = prefix

\* the number a string of lowercase hexadecimal digits denotes, -1 if it has
\* another character or none
RECURSIVE HexValue(_)
HexValue(str) ==
    LET n    == Len(str)
        last == SubSeq(str, n, n)
        rest == IF n > 1 THEN HexValue(SubSeq(str, 1, n - 1)) ELSE 0
    IN  IF n = 0 \/ rest < 0 \/ ~\E d \in 1..16 : Digits[d] = last
        THEN -1
        ELSE 16 * rest + (CHOOSE d \in 1..16 : Digits[d] = last) - 1

\* the mnemonics of the default instructions in lowercase
LowerMnemonic ==
    [k \in {"ADD", "XOR", "ADDI", "SW", "BEQ", "LUI", "JAL", "FADD.S", "CSRRW",
            "CSRRCI", "LW"} |->
       CASE k = "ADD" -> "add"    [] k = "XOR" -> "xor"     [] k = "ADDI" -> "addi"
         [] k = "SW" -> "sw"      [] k = "BEQ" -> "beq"     [] k = "LUI" -> "lui"
         [] k = "JAL" -> "jal"    [] k = "FADD.S" -> "fadd.s"
         [] k = "CSRRW" -> "csrrw" [] k = "CSRRCI" -> "csrrci" [] k = "LW" -> "lw"]

\* the text of a conforming operand, except an Immediate
PlainOperandText(kind, v) ==
    CASE kind \in {"REGISTER", "FREGISTER"} -> v.reg.abi_name
      [] kind \in {"CSR", "LABEL"}          -> v.name
      [] kind = "BASE_OFFSET" ->
           Decimal(v.items[2].val) \o "(" \o v.items[1].reg.abi_name \o ")"

\* text is mnemonic, a space, then the operand texts joined by ", ", the
\* operand texts being as whenImm(n, t) requires of the text t of Immediate n
\* and as PlainOperandText gives for the others
RenderedAs(text, whenImm(_, _)) ==
    \E ts \in [1..Len(RetOperands) -> {FormatOperand(RetFormat[i],
                   RetOperands[i], i - 1).text : i \in 1..Len(RetOperands)}] :
      /\ \A i \in 1..Len(RetOperands) :
           IF RetFormat[i] = "IMMEDIATE"
           THEN whenImm(RetOperands[i].val, ts[i])
           ELSE ts[i] = PlainOperandText(RetFormat[i], RetOperands[i])
      /\ text = LowerMnemonic[ret.args.definition.mnemonic] \o " "
                \o (IF Len(ts) = 0 THEN "" ELSE
                    IF Len(ts) = 1 THEN ts[1] ELSE
                    IF Len(ts) = 2 THEN ts[1] \o ", " \o ts[2]
                    ELSE ts[1] \o ", " \o ts[2] \o ", " \o ts[3])

\* every Immediate is 0x followed by the lowercase hexadecimal digits of n
ImmAsStated(n, t) ==
    /\ StartsWith(t, "0x")
    /\ HexValue(SubSeq(t, 3, Len(t))) = n

\* a negative Immediate is a minus sign, 0x and the digits of its magnitude
ImmSigned(n, t) ==
    IF n < 0
    THEN StartsWith(t, "-0x") /\ HexValue(SubSeq(t, 4, Len(t))) = -n
    ELSE StartsWith(t, "0x") /\ HexValue(SubSeq(t, 3, Len(t))) = n

\* the call is a generate whose operands all conform to the format
ConformingCall == RightArity /\ Offending = {}

\* C10 as stated: for conforming operands generate returns the lowercased
\* mnemonic, a space and the operand texts joined by ", ", every Immediate,
\* negative ones included, being 0x followed by lowercase hexadecimal digits.
C10_AsStated ==
    ConformingCall =>
      /\ ret.result.tag = "str"
      /\ RenderedAs(ret.result.text, ImmAsStated)

X10 == RegisterVal(Register("x10", None, "X", "Caller", FALSE, FALSE))

X11 == RegisterVal(Register("x11", None, "X", "Caller", FALSE, FALSE))

\* C10 amended: the same, a negative Immediate being rendered as a minus sign
\* followed by 0x and the lowercase hexadecimal digits of its magnitude; ADD
\* on x10, x11, x10 gives "add x10, x11, x10" and ADDI on x10, x11, 5 gives
\* "addi x10, x11, 0x5".
C10_RenderedText ==
    ConformingCall =>
      /\ ret.result.tag = "str"
      /\ RenderedAs(ret.result.text, ImmSigned)
      /\ (ret.args.definition.mnemonic = "ADD" /\ RetOperands = <<X10, X11, X10>>)
           => ret.result.text = "add x10, x11, x10"
      /\ (ret.args.definition.mnemonic = "ADDI"
          /\ RetOperands = <<X10, X11, IntVal(5)>>)
           => ret.result.text = "addi x10, x11, 0x5"

\* generate returned text for conforming operands, among them a register with
\* an ABI alias and a negative Immediate
C10_Witness ==
    /\ ConformingCall
    /\ Len(RetOperands) = 3
    /\ RetOperands[1].reg.abi_name = "ra"
    /\ RetFormat[3] = "IMMEDIATE" /\ RetOperands[3].val < 0
    /\ ret.result.tag = "str"

\* ---------------------------------------------------------------------------
\* InstructionSet
\* ---------------------------------------------------------------------------

\* the random module, the generator an object falls back on when no
\* random_engine is passed to it
GlobalRandom == "random"

\* truth value of an optional argument: None and the empty string are false
Truthy(x) == x # None /\ x # ""

\* InstructionSet.__init__: an empty dict, like no dict, gives the default
\* instructions; random_engine is None when it is not passed
InstructionSet(instructions, random_engine) ==
    [instructions  |-> IF instructions # <<>> THEN instructions
                       ELSE DefaultInstructions,
     random_engine |-> IF random_engine # None THEN random_engine
                       ELSE GlobalRandom]

\* InstructionSet.filter: the entries that pass the lambda, wrapped in a new
\* InstructionSet built without a random_engine
InstructionSet_filter(self, extension, mnemonic, format) ==
    LET filtered_instructions ==
          SelectSeq(self.instructions,
                    LAMBDA instr :
                      /\ ~Truthy(extension) \/ instr.val.extension = extension
                      /\ ~Truthy(mnemonic) \/ instr.val.mnemonic = mnemonic
                      /\ ~Truthy(format) \/ instr.val.format = format)
    IN  InstructionSet(filtered_instructions, None)

\* a list argument, and the truth value of an optional list argument
ListVal(items) == [tag |-> "list", items |-> items]

TruthyList(l) == l # NoneVal /\ l.items # <<>>

\* d[k] = v on a dict of instructions
InstrPut(dict, k, v) ==
    IF \E i \in 1..Len(dict) : dict[i].key = k
    THEN [i \in 1..Len(dict) |->
            IF dict[i].key = k THEN [key |-> k, val |-> v] ELSE dict[i]]
    ELSE Append(dict, [key |-> k, val |-> v])

\* self.instructions[k]
InstrGet(dict, k) ==
    (CHOOSE e \in {dict[i] : i \in 1..Len(dict)} : e.key = k).val

\* {instr: self.instructions[instr] for instr in specific_list
\*  if instr in self.instructions}
RECURSIVE InstrOfList(_, _)
InstrOfList(dict, specific_list) ==
    IF specific_list = <<>> THEN <<>>
    ELSE LET n     == Len(specific_list)
             instr == specific_list[n]
             rest  == InstrOfList(dict, SubSeq(specific_list, 1, n - 1))
         IN  IF \E i \in 1..Len(dict) : dict[i].key = instr
             THEN InstrPut(rest, instr, InstrGet(dict, instr))
             ELSE rest

\* available_instructions of pick_random_instruction
AvailableInstructions(self, extension, format, specific_list) ==
    IF TruthyList(specific_list)
    THEN InstrOfList(self.instructions, specific_list.items)
    ELSE InstructionSet_filter(self, extension, None, format).instructions

DefinitionVal(d) == [tag |-> "InstructionDefinition", val |-> d]

\* ---------------------------------------------------------------------------
\* Calls on instruction sets.  isa[1] is InstructionSet(); isa[2] is the
\* InstructionSet the caller holds from its latest filter call.
\* ---------------------------------------------------------------------------

ExtensionArgs == {None, "", "I", "F", "M"}

MnemonicArgs == {None, "ADD", "FADD.S", "NOP"}

FormatArgs == {None, "R", "FR", "LOAD_STORE", "U"}

SpecificLists ==
    {NoneVal, ListVal(<<>>), ListVal(<<"ADD">>), ListVal(<<"NOP">>),
     ListVal(<<"NOP", "FADD.S">>), ListVal(<<"LW", "ADD", "LW">>)}

InitCatalog ==
    /\ heap = <<>>
    /\ pools = [p \in PoolIds |-> <<>>]
    /\ ret = NoCall
    /\ isa = <<InstructionSet(<<>>, None)>>
    /\ asm = <<>>

\* InstructionSet.filter, the caller keeping the returned InstructionSet
isa_filter(c, extension, mnemonic, format) ==
    /\ isa' = <<isa[1], InstructionSet_filter(isa[c], extension, mnemonic,
                                               format)>>
    /\ ret' = [op |-> "InstructionSet.filter", pool |-> c,
               args |-> [extension |-> extension, mnemonic |-> mnemonic,
                         format |-> format],
               result |-> [tag |-> "InstructionSet", id |-> 2]]
    /\ UNCHANGED <<heap, pools, asm>>

\* InstructionSet.pick_random_instruction; random_engine.choice is a free
\* choice among the values of available_instructions
pick_random_instruction(c, extension, format, specific_list) ==
    /\ LET available_instructions ==
             AvailableInstructions(isa[c], extension, format, specific_list)
           args == [extension |-> extension, format |-> format,
                    specific_list |-> specific_list]
       IN  IF available_instructions # <<>>
           THEN \E i \in 1..Len(available_instructions) :
                  ret' = [op |-> "pick_random_instruction", pool |-> c,
                          args |-> args,
                          result |-> DefinitionVal(
                                         available_instructions[i].val)]
           ELSE ret' = [op |-> "pick_random_instruction", pool |-> c,
                        args |-> args, result |-> NoneVal]
    /\ UNCHANGED <<heap, pools, isa, asm>>

NextCatalog ==
    \/ Idle /\ \E c \in DOMAIN isa, extension \in ExtensionArgs,
                 mnemonic \in MnemonicArgs, format \in FormatArgs :
                   isa_filter(c, extension, mnemonic, format)
    \/ Idle /\ \E c \in DOMAIN isa, extension \in ExtensionArgs,
                 format \in FormatArgs, specific_list \in SpecificLists :
                   pick_random_instruction(c, extension, format, specific_list)
    \/ Return

SpecCatalog == InitCatalog /\ [][NextCatalog]_vars

\* ---------------------------------------------------------------------------
\* Properties of InstructionSet
\* ---------------------------------------------------------------------------

\* the definitions of an instruction set
Definitions(self) == {self.instructions[i].val : i \in 1..Len(self.instructions)}

\* the definitions of self that match every predicate that is supplied
Matching(self, extension, mnemonic, format) ==
    {d \in Definitions(self) :
       /\ extension = None \/ d.extension = extension
       /\ mnemonic = None \/ d.mnemonic = mnemonic
       /\ format = None \/ d.format = format}

\* C11 as stated: filter returns an instruction set whose definitions are
\* definitions of the receiver that match every supplied predicate (none at
\* all when no definition matches), and exactly the receiver's definitions
\* when no predicate is supplied.
C11_AsStated ==
    [][ret'.op = "InstructionSet.filter" =>
         LET self   == isa[ret'.pool]
             result == isa'[ret'.result.id]
         IN  /\ Definitions(result) \subseteq
                  Matching(self, ret'.args.extension, ret'.args.mnemonic,
                           ret'.args.format)
             /\ (ret'.args.extension = None /\ ret'.args.mnemonic = None
                 /\ ret'.args.format = None)
                  => Definitions(result) = Definitions(self)]_vars

\* the candidate set of a pick: the definitions of self whose mnemonic is in
\* the list when a list is given, else those whose extension and format equal
\* the supplied ones
Candidates(self, extension, format, specific_list) ==
    IF specific_list # NoneVal
    THEN {d \in Definitions(self) :
            \E i \in 1..Len(specific_list.items) :
              d.mnemonic = specific_list.items[i]}
    ELSE Matching(self, extension, None, format)

\* C12 as stated: pick_random_instruction returns a definition of the
\* candidate set, and returns None exactly when the candidate set is empty;
\* an extension or format no definition has gives None.
C12_AsStated ==
    [][ret'.op = "pick_random_instruction" =>
         LET cand == Candidates(isa[ret'.pool], ret'.args.extension,
                                ret'.args.format, ret'.args.specific_list)
         IN  /\ ret'.result = NoneVal <=> cand = {}
             /\ ret'.result # NoneVal => ret'.result.val \in cand]_vars

\* ---------------------------------------------------------------------------
\* random.Random(seed): a deterministic generator.  Its state is a number;
\* every draw advances the state and is a function of the state alone.
\* ---------------------------------------------------------------------------

\* number of states of the generator
RandomModulus == 4

\* the state after one draw
RandomNext(s) == (s + 1) % RandomModulus

\* random_engine.randint(a, b), drawn in state s
randint(s, a, b) == a + (RandomNext(s) % (b - a + 1))

\* random_engine.choice(seq), drawn in state s
choice(s, seq) == seq[(RandomNext(s) % Len(seq)) + 1]

\* ---------------------------------------------------------------------------
\* Label
\* ---------------------------------------------------------------------------

\* str.isdigit() of one character: true of the decimal digits and of other
\* Unicode digits, of which superscript two is modelled
IsDigit(c) == c \in {"0", "1", "2", "3", "4", "5", "6", "7", "8", "9", "²"}

IndexError == [tag |-> "IndexError", msg |-> "string index out of range"]

\* Label.is_valid_name: name[0] raises on the empty string
Label_is_valid_name(name) ==
    IF name = "" THEN IndexError
    ELSE IF IsDigit(SubSeq(name, 1, 1)) THEN [tag |-> "bool", val |-> FALSE]
    ELSE [tag |-> "bool", val |-> TRUE]

\* the value a call returns when it returns an operand object
OperandVal(v) == [tag |-> "operand", val |-> v]

\* Label.__init__: the new Label, or the exception
Label_init(name) ==
    LET valid == Label_is_valid_name(name)
    IN  IF valid.tag # "bool" THEN valid
        ELSE IF ~valid.val THEN ValueError("Invalid label name: " \o name)
        ELSE OperandVal(Label(name))

\* ---------------------------------------------------------------------------
\* Assembler.  Each method is an operator from the object (self) and the
\* arguments to the object after the call and the value returned or the
\* exception raised.
\* ---------------------------------------------------------------------------

\* the registers of an Assembler's Registers object that are modelled:
\* x1/ra, x8/s0 and f8/fs0
AssemblerRegisters ==
    LET sample == SelectSeq(RegisterCatalog, LAMBDA e : e.rank <= 3)
    IN  [i \in 1..Len(sample) |-> sample[i].reg]

\* CSRRegisters.__init__
DefaultCSRs ==
    << CSRRegister("mstatus", "Machine status register", 768),
       CSRRegister("mie", "Machine interrupt-enable register", 772),
       CSRRegister("mtvec", "Machine trap-handler base address", 773) >>

\* the name of the random engine an Assembler hands to its parts
Engine == "self.random_engine"

\* Assembler.__init__
Assembler(seed) ==
    [random_engine |-> seed,
     isa           |-> InstructionSet(<<>>, Engine),
     heap          |-> AssemblerRegisters,
     registers     |-> DictOfRegs(AssemblerRegisters,
                                  [i \in 1..Len(AssemblerRegisters) |-> i]),
     csrs          |-> DefaultCSRs,
     code          |-> <<>>,
     labels        |-> <<>>]

Outcome(self, result) == [self |-> self, result |-> result]

UpperChar(c) ==
    IF \E k \in 1..Len(LowerChars) : LowerChars[k] = c
    THEN UpperChars[CHOOSE k \in 1..Len(LowerChars) : LowerChars[k] = c]
    ELSE c

\* str.upper()
RECURSIVE Upper(_)
Upper(str) ==
    IF str = "" THEN ""
    ELSE UpperChar(SubSeq(str, 1, 1)) \o Upper(SubSeq(str, 2, Len(str)))

InstrHasKey(dict, k) == \E i \in 1..Len(dict) : dict[i].key = k

\* add_instruction appending the line before generate has checked it
Assembler_add_instruction_AppendFirst(self, instruction, operands) ==
    LET appended == [self EXCEPT !.code = Append(@, Lower(instruction))]
        key      == Upper(instruction)
    IN  IF ~InstrHasKey(self.isa.instructions, key)
        THEN Outcome(appended, ValueError("Error adding instruction"))
        ELSE LET instr_str == InstructionDefinition_generate(
                                  InstrGet(self.isa.instructions, key), operands)
             IN  IF instr_str.tag # "str"
                 THEN Outcome(appended, ValueError("Error adding instruction"))
                 ELSE Outcome([self EXCEPT !.code = Append(@, instr_str.text)],
                              NoneVal)

\* Assembler.add_instruction: the KeyError of an unknown mnemonic and every
\* exception of generate are raised again as ValueError
Assembler_add_instruction(self, instruction, operands) ==
    LET key == Upper(instruction)
    IN  IF ~InstrHasKey(self.isa.instructions, key)
        THEN Outcome(self, ValueError("Error adding instruction"))
        ELSE LET instr_str == InstructionDefinition_generate(
                                  InstrGet(self.isa.instructions, key), operands)
             IN  IF instr_str.tag # "str"
                 THEN Outcome(self, ValueError("Error adding instruction"))
                 ELSE Outcome([self EXCEPT !.code = Append(@, instr_str.text)],
                              NoneVal)

\* define_label recording the name before Label has validated it
Assembler_define_label_RecordFirst(self, label_name) ==
    IF ~InstrHasKey(self.labels, label_name)
    THEN LET label    == Label_init(label_name)
             recorded == [self EXCEPT !.labels =
                            Append(@, [key |-> label_name,
                                       val |-> Label(label_name)])]
         IN  Outcome(recorded, label)
    ELSE Outcome(self, ValueError("Label " \o label_name \o " already exists."))

\* Assembler.define_label
Assembler_define_label(self, label_name) ==
    IF ~InstrHasKey(self.labels, label_name)
    THEN LET label == Label_init(label_name)
         IN  IF label.tag # "operand"
             THEN Outcome(self, label)
             ELSE Outcome([self EXCEPT !.labels =
                             Append(@, [key |-> label_name, val |-> label.val])],
                          label)
    ELSE Outcome(self, ValueError("Label " \o label_name \o " already exists."))

\* Assembler.add_label
Assembler_add_label(self, label_name) ==
    LET defined == IF ~InstrHasKey(self.labels, label_name)
                   THEN Assembler_define_label(self, label_name)
                   ELSE Outcome(self, NoneVal)
    IN  IF defined.result.tag \notin {"operand", "None"}
        THEN defined
        ELSE LET label == InstrGet(defined.self.labels, label_name)
             IN  Outcome([defined.self EXCEPT !.code = Append(@, Str(label) \o ":")],
                         OperandVal(label))

\* Assembler.add_comment
Assembler_add_comment(self, comment) ==
    Outcome([self EXCEPT !.code = Append(@, "# " \o comment)], NoneVal)

\* self.registers.pick_register(type=type): the other arguments take their
\* defaults, and choice is drawn from the Assembler's random engine
Assembler_pick_register(self, type) ==
    LET regs_list == PickCandidates(self.heap, self.registers, type, None,
                                    PickReservedArg(Omitted), None)
    IN  IF IsError(regs_list)
        THEN Outcome(self, regs_list)
        ELSE LET chosen_reg == choice(self.random_engine, regs_list.items)
                 after == [self EXCEPT
                             !.random_engine = RandomNext(@),
                             !.heap = MarkChosen(@, chosen_reg, FALSE)]
             IN  Outcome(after, OperandVal(RegisterVal(after.heap[chosen_reg])))

\* Assembler.generate_random_operand.  ambient is the number the call of the
\* random module's own randint returns: it is not drawn from random_engine.
Assembler_generate_random_operand(self, operand_type, ambient) ==
    CASE operand_type = "REGISTER"  -> Assembler_pick_register(self, "X")
      [] operand_type = "FREGISTER" -> Assembler_pick_register(self, "F")
      [] operand_type = "CSR" ->
           Outcome([self EXCEPT !.random_engine = RandomNext(@)],
                   OperandVal(choice(self.random_engine, self.csrs)))
      [] operand_type = "IMMEDIATE" ->
           Outcome([self EXCEPT !.random_engine = RandomNext(@)],
                   OperandVal(IntVal(randint(self.random_engine, 0, MaxImm))))
      [] operand_type = "LABEL" ->
           Assembler_define_label(self, "label_" \o Decimal(ambient))
      [] operand_type = "BASE_OFFSET" ->
           LET reg == Assembler_pick_register(self, "X")
           IN  IF reg.result.tag # "operand" THEN reg
               ELSE Outcome([reg.self EXCEPT !.random_engine = RandomNext(@)],
                            OperandVal(TupleVal(
                              <<reg.result.val,
                                IntVal(randint(reg.self.random_engine, 0,
                                               MaxImm))>>)))

\* self.isa.pick_random_instruction(extension, format) when derived is false,
\* self.isa.filter(extension, format).pick_random_instruction() when it is
\* true.  An instruction set draws from the engine it was built with: the
\* Assembler's, or the random module (ambient).
Assembler_pick_random_instruction(self, extension, format, derived, ambient) ==
    LET set == IF derived
               THEN InstructionSet_filter(self.isa, extension, None, format)
               ELSE self.isa
        available_instructions ==
               IF derived
               THEN AvailableInstructions(set, None, None, NoneVal)
               ELSE AvailableInstructions(set, extension, format, NoneVal)
    IN  IF available_instructions = <<>> THEN Outcome(self, NoneVal)
        ELSE IF set.random_engine = Engine
        THEN Outcome([self EXCEPT !.random_engine = RandomNext(@)],
                     DefinitionVal(choice(self.random_engine,
                                          available_instructions).val))
        ELSE Outcome(self,
                     DefinitionVal(available_instructions[
                       (ambient % Len(available_instructions)) + 1].val))

\* ---------------------------------------------------------------------------
\* Calls on Assemblers.  asm is the list of the Assembler objects the caller
\* has built, all with the same seed; the caller makes each call on every one
\* of them.  ret.result[i] is what the call on asm[i] returned; the caller may
\* pass it on to its next call on asm[i].
\* ---------------------------------------------------------------------------

\* longest code list and largest label table
MaxCode == 1

MaxLabels == 1

\* the seeds passed to Assembler(seed)
Seeds == {0, 1}

\* the numbers a call of the random module's own randint may return
AmbientDraws == {0, 1}

\* an argument that stands for the value the latest call returned
Held == [cls |-> "Held"]

HeldMnemonic == "chosen_instr.mnemonic"

RA == RegisterVal(RegisterCatalog[1].reg)

LabelNames == {"", "1st", "loop", "label_0"}

Mnemonics == {"jal", "NOP", HeldMnemonic}

OperandTemplates == {<<RA, Held>>, <<RA, RA, RA>>}

\* one Assembler(seed)
InitAsm ==
    /\ heap = <<>>
    /\ pools = [p \in PoolIds |-> <<>>]
    /\ isa = <<>>
    /\ \E seed \in Seeds : asm = <<Assembler(seed)>>
    /\ ret = [op |-> "none", pool |-> 0, args |-> NoArgs,
              result |-> <<NoneVal>>]

\* two Assembler(seed) with the same seed
InitSeeded ==
    /\ heap = <<>>
    /\ pools = [p \in PoolIds |-> <<>>]
    /\ isa = <<>>
    /\ \E seed \in Seeds : asm = <<Assembler(seed), Assembler(seed)>>
    /\ ret = [op |-> "none", pool |-> 0, args |-> NoArgs,
              result |-> <<NoneVal, NoneVal>>]

\* the numbers the random module may return to each Assembler's call
Ambient == [DOMAIN asm -> AmbientDraws]

NoAmbient == [i \in DOMAIN asm |-> 0]

\* the state after the call whose outcomes on the Assemblers are o; the
\* caller stops short of a code list or label table longer than modelled
Called(op, args, o) ==
    \E out \in {o} :
      /\ \A i \in DOMAIN asm : /\ Len(out[i].self.code) <= MaxCode
                               /\ Len(out[i].self.labels) <= MaxLabels
      /\ asm' = [i \in DOMAIN asm |-> out[i].self]
      /\ ret' = [op |-> op, pool |-> 0, args |-> args,
                 result |-> [i \in DOMAIN asm |-> out[i].result]]
      /\ UNCHANGED <<heap, pools, isa>>

\* the operands of a call on asm[i], the held value filled in
Resolve(i, template) ==
    [k \in 1..Len(template) |->
       IF template[k] = Held THEN ret.result[i].val ELSE template[k]]

UsesHeld(template) == \E k \in 1..Len(template) : template[k] = Held

add_instruction(instruction, template) ==
    /\ UsesHeld(template) => \A i \in DOMAIN asm : ret.result[i].tag = "operand"
    /\ instruction = HeldMnemonic =>
         \A i \in DOMAIN asm : ret.result[i].tag = "InstructionDefinition"
    /\ Called("add_instruction",
              [instruction |-> instruction, operands |-> template],
              [i \in DOMAIN asm |->
                 Assembler_add_instruction(
                   asm[i],
                   IF instruction = HeldMnemonic
                   THEN ret.result[i].val.mnemonic ELSE instruction,
                   Resolve(i, template))])

define_label(label_name) ==
    Called("define_label", [label_name |-> label_name],
           [i \in DOMAIN asm |-> Assembler_define_label(asm[i], label_name)])

add_label(label_name) ==
    Called("add_label", [label_name |-> label_name],
           [i \in DOMAIN asm |-> Assembler_add_label(asm[i], label_name)])

add_comment(comment) ==
    Called("add_comment", [comment |-> comment],
           [i \in DOMAIN asm |-> Assembler_add_comment(asm[i], comment)])

generate_random_operand(operand_type, ambient) ==
    /\ operand_type # "LABEL" => ambient = NoAmbient
    /\ Called("generate_random_operand", [operand_type |-> operand_type],
              [i \in DOMAIN asm |->
                 Assembler_generate_random_operand(asm[i], operand_type,
                                                   ambient[i])])

pick_instruction(extension, format, derived, ambient) ==
    /\ ~derived => ambient = NoAmbient
    /\ Called("pick_random_instruction",
              [extension |-> extension, format |-> format, derived |-> derived],
              [i \in DOMAIN asm |->
                 Assembler_pick_random_instruction(asm[i], extension, format,
                                                   derived, ambient[i])])

\* the caller moves on from the call it made, keeping what it returned
MoveOn ==
    /\ ~Idle
    /\ ret' = [op |-> "none", pool |-> 0, args |-> NoArgs,
               result |-> ret.result]
    /\ UNCHANGED <<heap, pools, isa, asm>>

NextAsm ==
    \/ Idle /\ \E instruction \in Mnemonics, template \in OperandTemplates :
                 add_instruction(instruction, template)
    \/ Idle /\ \E label_name \in LabelNames : define_label(label_name)
    \/ Idle /\ \E label_name \in LabelNames : add_label(label_name)
    \/ Idle /\ add_comment("Test 04")
    \/ Idle /\ \E operand_type \in OperandType, ambient \in Ambient :
                 generate_random_operand(operand_type, ambient)
    \/ Idle /\ \E format \in {None, "R"}, derived \in BOOLEAN,
                 ambient \in Ambient :
                   pick_instruction(None, format, derived, ambient)
    \/ MoveOn

SpecAsm == InitAsm /\ [][NextAsm]_vars

SpecSeeded == InitSeeded /\ [][NextAsm]_vars

\* ---------------------------------------------------------------------------
\* Properties of the Assembler
\* ---------------------------------------------------------------------------

\* C13 as stated: two Assemblers built with the same seed and driven by the
\* same calls have identical code lists.
C13_AsStated == asm[1].code = asm[2].code

\* the mnemonic and the operands the add_instruction step passes to asm[i]
StepMnemonic(i) ==
    IF ret'.args.instruction = HeldMnemonic
    THEN ret.result[i].val.mnemonic ELSE ret'.args.instruction

StepOperands(i) == Resolve(i, ret'.args.operands)

\* the call names no instruction of the catalog, or passes a number of
\* operands other than the format's, or an operand of another kind than its
\* position requires
Violation(i) ==
    \E key \in {Upper(StepMnemonic(i))}, operands \in {StepOperands(i)} :
      \A d \in Definitions(asm[i].isa) :
        d.mnemonic = key =>
          LET format == InstructionFormat[d.format]
          IN  \/ Len(operands) # Len(format)
              \/ \E k \in 1..Len(format) : ~Conforms(format[k], operands[k])

\* C14: an add_instruction whose render fails raises and leaves the
\* Assembler as it was: the catalog, every register's flags, the label table
\* and the code list; a violation of arity or operand kind always fails; and
\* a line is appended to the code list only when the render has succeeded,
\* nothing else changing then.
C14_FailedRenderChangesNothing ==
    [][ret'.op = "add_instruction" =>
         \A i \in DOMAIN asm :
           /\ Violation(i) => ret'.result[i].tag = "ValueError"
           /\ ret'.result[i].tag # "None" =>
                /\ ret'.result[i].tag = "ValueError"
                /\ asm'[i].isa = asm[i].isa
                /\ asm'[i].heap = asm[i].heap
                /\ asm'[i].labels = asm[i].labels
                /\ asm'[i].code = asm[i].code
                /\ asm'[i] = asm[i]
           /\ ret'.result[i].tag = "None" =>
                /\ Len(asm'[i].code) = Len(asm[i].code) + 1
                /\ asm'[i] = [asm[i] EXCEPT !.code = asm'[i].code]
                /\ SubSeq(asm'[i].code, 1, Len(asm[i].code)) = asm[i].code]_vars

\* add_instruction("jal", ra, <a float register>) failed on an Assembler that
\* has a line of code, a label and a register in use
C14_Witness ==
    /\ ret.op = "add_instruction"
    /\ ret.args.instruction = "jal"
    /\ ret.args.operands = <<RA, Held>>
    /\ ret.result[1].tag = "ValueError"
    /\ asm[1].code # <<>>
    /\ asm[1].labels # <<>>
    /\ \E a \in 1..Len(asm[1].heap) : asm[1].heap[a].is_in_use

\* C17: define_label on a name that is valid (its first character is not a
\* digit) and not yet defined returns a new Label of that name and records it
\* under that name, changing nothing else; on a name that is already defined
\* it fails with the "already exists" error, and on a name whose first
\* character is a digit with the "Invalid label name" error; whenever it
\* fails the label table, the code list and the rest are unchanged.
C17_DefineLabel ==
    [][ret'.op = "define_label" =>
         \A i \in DOMAIN asm :
           LET name    == ret'.args.label_name
               defined == \E k \in 1..Len(asm[i].labels) :
                            asm[i].labels[k].key = name
               digit   == name # "" /\ IsDigit(SubSeq(name, 1, 1))
               result  == ret'.result[i]
           IN  /\ (~defined /\ name # "" /\ ~digit) =>
                    /\ result = OperandVal(Label(name))
                    /\ asm'[i].labels =
                         Append(asm[i].labels,
                                [key |-> name, val |-> Label(name)])
                    /\ asm'[i] = [asm[i] EXCEPT !.labels = asm'[i].labels]
               /\ defined =>
                    /\ result.tag = "ValueError"
                    /\ result.msg = "Label " \o name \o " already exists."
               /\ (~defined /\ digit) =>
                    /\ result.tag = "ValueError"
                    /\ StartsWith(result.msg, "Invalid label name")
               /\ result.tag # "operand" =>
                    /\ asm'[i].labels = asm[i].labels
                    /\ asm'[i].code = asm[i].code
                    /\ asm'[i] = asm[i]]_vars

\* define_label failed on a name that add_label had defined: the label is
\* still in the table and its line in the code list
C17_Witness ==
    /\ ret.op = "define_label"
    /\ ret.args.label_name = "loop"
    /\ ret.result[1].tag = "ValueError"
    /\ \E k \in 1..Len(asm[1].labels) : asm[1].labels[k].key = "loop"
    /\ asm[1].code = <<"loop:">>

\* ---------------------------------------------------------------------------
\* Register.__init__ with its validation
\* ---------------------------------------------------------------------------

RECURSIVE AllDigits(_)
AllDigits(str) ==
    IF str = "" THEN TRUE
    ELSE IsDigit(SubSeq(str, 1, 1)) /\ AllDigits(SubSeq(str, 2, Len(str)))

\* str.isdigit(): at least one character, and all of them digits
str_isdigit(str) == str # "" /\ AllDigits(str)

\* building the message of the type or saved_by error joins enum members,
\* which raises TypeError
TypeError == [tag |-> "TypeError", msg |-> "sequence item 0: expected str instance"]

\* defaults of type and saved_by in the signature of Register.__init__
RegisterDefaultType == "X"

RegisterDefaultSavedBy == "Caller"

\* Register.__init__: the exception, or the new Register
Register_init(name, abi_name, type, saved_by) ==
    LET t  == IF type = Omitted THEN RegisterDefaultType ELSE type
        sb == IF saved_by = Omitted THEN RegisterDefaultSavedBy ELSE saved_by
    IN  IF \/ ~(StartsWith(name, "x") \/ StartsWith(name, "f"))
           \/ ~str_isdigit(SubSeq(name, 2, Len(name)))
        THEN ValueError("Invalid register name: " \o name)
        ELSE IF t \notin RegisterType THEN TypeError
        ELSE IF sb \notin RegisterSaveType THEN TypeError
        ELSE [tag |-> "Register",
              val |-> Register(name, abi_name, t, sb, FALSE, FALSE)]

\* names, types and saved_by values passed to Register(...)
RegisterNames ==
    {"x5", "x10", "f3", "f31", "y5", "x", "f", "", "x1a", "xf1", "5x", "X5",
     "x-1", "x²"}

RegisterTypeArgs == {Omitted, "X", "F", "V"}

RegisterSavedByArgs == {Omitted, "Callee", "System", "nobody"}

InitRegister ==
    /\ heap = <<>>
    /\ pools = [p \in PoolIds |-> <<>>]
    /\ ret = NoCall
    /\ isa = <<>>
    /\ asm = <<>>

\* the caller builds a Register
construct(name, abi_name, type, saved_by) ==
    /\ ret' = [op |-> "Register", pool |-> 0,
               args |-> [name |-> name, abi_name |-> abi_name, type |-> type,
                         saved_by |-> saved_by],
               result |-> Register_init(name, abi_name, type, saved_by)]
    /\ UNCHANGED <<heap, pools, isa, asm>>

NextRegister ==
    \/ Idle /\ \E name \in RegisterNames, abi_name \in {None, "t0"},
                 type \in RegisterTypeArgs, saved_by \in RegisterSavedByArgs :
                   construct(name, abi_name, type, saved_by)
    \/ Return

SpecRegister == InitRegister /\ [][NextRegister]_vars

\* ---------------------------------------------------------------------------
\* Properties of Register.__init__
\* ---------------------------------------------------------------------------

\* name is x or f followed by one or more of the digits 0 to 9
MatchesPattern(name) ==
    /\ Len(name) >= 2
    /\ SubSeq(name, 1, 1) \in {"x", "f"}
    /\ \A k \in 2..Len(name) :
         SubSeq(name, k, k) \in
           {"0", "1", "2", "3", "4", "5", "6", "7", "8", "9"}

\* C15 as stated: a Register whose construction succeeds has a name that is
\* x or f followed by one or more decimal digits, and its type is X if and
\* only if the name starts with x; a name that is not of that form is
\* rejected with the invalid-name ValueError.
C15_AsStated ==
    ret.op = "Register" =>
      /\ ret.result.tag = "Register" =>
           /\ MatchesPattern(ret.result.val.name)
           /\ ret.result.val.type = "X" <=>
                SubSeq(ret.result.val.name, 1, 1) = "x"
      /\ ~MatchesPattern(ret.args.name) => ret.result.tag = "ValueError"

====
